---- MODULE Spec2Model ----
(***************************************************************************)
(* copado-mcp: four webhook tools (commit_changes, promote_user_story,     *)
(* deploy_promotion, check_job_status), the change-description parser and  *)
(* the identifier-list parser.                                             *)
(*                                                                         *)
(* A JavaScript string is a sequence of one-character strings, so that the *)
(* regular expressions of the source are computed character by character.  *)
(***************************************************************************)
EXTENDS Integers, Sequences, FiniteSets, TLC

VARIABLES
  COPADO_API_KEY,   \* process.env.COPADO_API_KEY, read by the tools
  env,              \* env.COPADO_API_KEY, the binding handed to default.fetch
  globalKey,        \* globalThis.COPADO_API_KEY, written by default.fetch
  keyWrites,        \* how many times globalThis.COPADO_API_KEY was assigned
  calls,            \* the tool calls made so far, in the order they started
  requests,         \* the HTTP requests handed to fetch(), in order
  description,      \* parser harness: the argument of parseChangesToCopadoFormat
  shape,            \* parser harness: how the description was put together
  changes,          \* parser harness: the list it returned
  parsePc,          \* parser harness: "input" | "parsed"
  userStoryIds,     \* identifier harness: the argument of parseUserStoryIds
  idsShape,         \* identifier harness: how the argument was put together
  cleanedIds,       \* identifier harness: the list it returned
  rejoinedIds,      \* identifier harness: parseUserStoryIds(cleanedIds.join(","))
  idsPc,            \* identifier harness: "input" | "parsed" | "rejoined"
  statusResult,     \* status harness: the object JSON.parse gave check_job_status
  statusShape,      \* status harness: how the object was put together
  statusFound,      \* status harness: the status read from it and its bucket
  statusPc          \* status harness: "input" | "classified"

vars == << COPADO_API_KEY, env, globalKey, keyWrites, calls, requests,
           description, shape, changes, parsePc,
           userStoryIds, idsShape, cleanedIds, rejoinedIds, idsPc,
           statusResult, statusShape, statusFound, statusPc >>

toolVars  == << COPADO_API_KEY, env, globalKey, keyWrites, calls, requests >>
parseVars == << description, shape, changes, parsePc >>
idsVars   == << userStoryIds, idsShape, cleanedIds, rejoinedIds, idsPc >>
statusVars == << statusResult, statusShape, statusFound, statusPc >>

-----------------------------------------------------------------------------
(* Characters and strings                                                  *)

UpperLetters == <<"A","B","C","D","E","F","G","H","I","J","K","L","M","N","O","P","Q","R","S","T","U","V","W","X","Y","Z">>
LowerLetters == <<"a","b","c","d","e","f","g","h","i","j","k","l","m","n","o","p","q","r","s","t","u","v","w","x","y","z">>
Digits == {"0","1","2","3","4","5","6","7","8","9"}

UpperSet == {UpperLetters[i] : i \in 1..Len(UpperLetters)}
LowerSet == {LowerLetters[i] : i \in 1..Len(LowerLetters)}

\* [A-Z] without the i flag
IsUpper(c) == c \in UpperSet
\* [A-Z] under the i flag
Letters == UpperSet \cup LowerSet
IsLetter(c) == c \in Letters
\* [A-Za-z0-9_], which is also \w
WordChars == UpperSet \cup LowerSet \cup Digits \cup {"_"}
IsWordChar(c) == c \in WordChars
\* \s, and the characters String.prototype.trim removes
IsSpace(c) == c \in {" ", "\t", "\n"}

LowerOf == [c \in UpperSet |-> LowerLetters[CHOOSE i \in 1..Len(UpperLetters) : UpperLetters[i] = c]]
LowerChar(c) == IF c \in UpperSet THEN LowerOf[c] ELSE c
\* String.prototype.toLowerCase
toLowerCase(s) == [i \in 1..Len(s) |-> LowerChar(s[i])]

\* s.substring(a, b) with 0-based a, b as in the source, clamped to the string
substring(s, a, b) ==
  LET lo == IF a < 0 THEN 0 ELSE IF a > Len(s) THEN Len(s) ELSE a
      hi == IF b < 0 THEN 0 ELSE IF b > Len(s) THEN Len(s) ELSE b
  IN IF lo <= hi THEN SubSeq(s, lo + 1, hi) ELSE SubSeq(s, hi + 1, lo)

\* the literal lit occurs in s at (1-based) position p
OccursAt(s, p, lit) ==
  /\ p >= 1
  /\ p + Len(lit) - 1 <= Len(s)
  /\ \A i \in 1..Len(lit) : s[p + i - 1] = lit[i]

\* the literal lit (lower case) occurs in s at position p, ignoring case
OccursAtIgnoreCase(s, p, lit) ==
  /\ p >= 1
  /\ p + Len(lit) - 1 <= Len(s)
  /\ \A i \in 1..Len(lit) : LowerChar(s[p + i - 1]) = lit[i]

\* String.prototype.includes
includes(s, lit) == \E p \in 1..(Len(s) + 1) : OccursAt(s, p, lit)

\* the position after the longest run of \s characters that starts at p
RECURSIVE SpaceRunEnd(_, _)
SpaceRunEnd(s, p) ==
  IF p <= Len(s) /\ IsSpace(s[p]) THEN SpaceRunEnd(s, p + 1) ELSE p

\* the position after the longest run of [A-Za-z0-9_] that starts at p
RECURSIVE WordRunEnd(_, _)
WordRunEnd(s, p) ==
  IF p <= Len(s) /\ IsWordChar(s[p]) THEN WordRunEnd(s, p + 1) ELSE p

\* \b at position p: exactly one of s[p-1], s[p] is a word character
WordBoundary(s, p) ==
  ((p > 1 /\ p - 1 <= Len(s)) /\ IsWordChar(s[p - 1]))
    # ((p >= 1 /\ p <= Len(s)) /\ IsWordChar(s[p]))

Min(S) == CHOOSE x \in S : \A y \in S : x <= y

RECURSIVE Concat(_)
Concat(ss) == IF ss = << >> THEN << >> ELSE Head(ss) \o Concat(Tail(ss))

\* Array.prototype.join
RECURSIVE join(_, _)
join(ss, sep) ==
  IF ss = << >> THEN << >>
  ELSE IF Len(ss) = 1 THEN ss[1]
  ELSE ss[1] \o sep \o join(Tail(ss), sep)

-----------------------------------------------------------------------------
(* parseUserStoryIds                                                       *)

\* .replace(/[\[\]"']/g, '')
RemoveBracketsAndQuotes(s) == SelectSeq(s, LAMBDA c : c \notin {"[", "]", "\"", "'"})

\* one match of /\s+and\s+/i starting exactly at p; 0 when there is none,
\* otherwise the position after the match.  Both \s+ are greedy, and giving
\* a whitespace character back can never let "and" or the second \s+ match.
AndMatchEnd(s, p) ==
  IF ~(p <= Len(s) /\ IsSpace(s[p])) THEN 0
  ELSE LET e1 == SpaceRunEnd(s, p)
       IN IF /\ OccursAtIgnoreCase(s, e1, <<"a","n","d">>)
             /\ e1 + 3 <= Len(s)
             /\ IsSpace(s[e1 + 3])
          THEN SpaceRunEnd(s, e1 + 3)
          ELSE 0

\* .replace(/\s+and\s+/gi, ','): leftmost match first, the search resumes
\* after the replaced match
RECURSIVE ReplaceAndFrom(_, _)
ReplaceAndFrom(s, from) ==
  LET starts == {p \in from..Len(s) : AndMatchEnd(s, p) # 0}
  IN IF starts = {} THEN SubSeq(s, from, Len(s))
     ELSE LET p == Min(starts)
          IN SubSeq(s, from, p - 1) \o <<",">> \o ReplaceAndFrom(s, AndMatchEnd(s, p))

ReplaceAnd(s) == ReplaceAndFrom(s, 1)

\* .split(','): always at least one piece
RECURSIVE split(_, _)
split(s, sep) ==
  LET hits == {p \in 1..Len(s) : s[p] = sep}
  IN IF hits = {} THEN << s >>
     ELSE LET p == Min(hits)
          IN << SubSeq(s, 1, p - 1) >> \o split(SubSeq(s, p + 1, Len(s)), sep)

\* String.prototype.trim
trim(s) ==
  LET keep == {p \in 1..Len(s) : ~IsSpace(s[p])}
  IN IF keep = {} THEN << >>
     ELSE SubSeq(s, Min(keep), CHOOSE q \in keep : \A r \in keep : r <= q)

\* a mutant of parseUserStoryIds: only the first "and" is replaced (no g flag)
parseUserStoryIds_firstAndOnly(ids) ==
  LET stripped == RemoveBracketsAndQuotes(ids)
      starts   == {p \in 1..Len(stripped) : AndMatchEnd(stripped, p) # 0}
      replaced == IF starts = {} THEN stripped
                  ELSE SubSeq(stripped, 1, Min(starts) - 1) \o <<",">>
                       \o SubSeq(stripped, AndMatchEnd(stripped, Min(starts)), Len(stripped))
      pieces   == split(replaced, ",")
      trimmed  == [i \in 1..Len(pieces) |-> trim(pieces[i])]
  IN SelectSeq(trimmed, LAMBDA id : Len(id) > 0)

\* a mutant of parseUserStoryIds: the pieces are not trimmed
parseUserStoryIds_noTrim(ids) ==
  LET pieces == split(ReplaceAnd(RemoveBracketsAndQuotes(ids)), ",")
  IN SelectSeq(pieces, LAMBDA id : Len(id) > 0)

parseUserStoryIds(ids) ==
  LET pieces  == split(ReplaceAnd(RemoveBracketsAndQuotes(ids)), ",")
      trimmed == [i \in 1..Len(pieces) |-> trim(pieces[i])]
  IN SelectSeq(trimmed, LAMBDA id : Len(id) > 0)

-----------------------------------------------------------------------------
(* parseChangesToCopadoFormat: the lexicons                                *)

\* typeMap, in insertion order (the order Object.entries gives)
typeMap ==
  << [k |-> <<"a","p","e","x"," ","c","l","a","s","s">>, v |-> "ApexClass"],
     [k |-> <<"c","l","a","s","s">>, v |-> "ApexClass"],
     [k |-> <<"a","p","e","x"," ","t","r","i","g","g","e","r">>, v |-> "ApexTrigger"],
     [k |-> <<"t","r","i","g","g","e","r">>, v |-> "ApexTrigger"],
     [k |-> <<"l","i","g","h","t","n","i","n","g"," ","c","o","m","p","o","n","e","n","t">>, v |-> "LightningComponentBundle"],
     [k |-> <<"l","w","c">>, v |-> "LightningComponentBundle"],
     [k |-> <<"c","o","m","p","o","n","e","n","t">>, v |-> "LightningComponentBundle"],
     [k |-> <<"f","l","o","w">>, v |-> "Flow"],
     [k |-> <<"c","u","s","t","o","m"," ","o","b","j","e","c","t">>, v |-> "CustomObject"],
     [k |-> <<"o","b","j","e","c","t">>, v |-> "CustomObject"],
     [k |-> <<"c","u","s","t","o","m"," ","f","i","e","l","d">>, v |-> "CustomField"],
     [k |-> <<"f","i","e","l","d">>, v |-> "CustomField"],
     [k |-> <<"l","a","y","o","u","t">>, v |-> "Layout"],
     [k |-> <<"p","e","r","m","i","s","s","i","o","n"," ","s","e","t">>, v |-> "PermissionSet"],
     [k |-> <<"p","r","o","f","i","l","e">>, v |-> "Profile"],
     [k |-> <<"c","u","s","t","o","m"," ","l","a","b","e","l">>, v |-> "CustomLabel"],
     [k |-> <<"l","a","b","e","l">>, v |-> "CustomLabel"],
     [k |-> <<"v","a","l","i","d","a","t","i","o","n"," ","r","u","l","e">>, v |-> "ValidationRule"],
     [k |-> <<"w","o","r","k","f","l","o","w"," ","r","u","l","e">>, v |-> "WorkflowRule"],
     [k |-> <<"e","m","a","i","l"," ","t","e","m","p","l","a","t","e">>, v |-> "EmailTemplate"],
     [k |-> <<"r","e","p","o","r","t">>, v |-> "Report"],
     [k |-> <<"d","a","s","h","b","o","a","r","d">>, v |-> "Dashboard"] >>

\* actionMap, in insertion order
actionMap ==
  << [k |-> <<"a","d","d","e","d">>, v |-> "Add"],
     [k |-> <<"c","r","e","a","t","e","d">>, v |-> "Add"],
     [k |-> <<"n","e","w">>, v |-> "Add"],
     [k |-> <<"m","o","d","i","f","i","e","d">>, v |-> "Add"],
     [k |-> <<"c","h","a","n","g","e","d">>, v |-> "Add"],
     [k |-> <<"u","p","d","a","t","e","d">>, v |-> "Add"],
     [k |-> <<"e","d","i","t","e","d">>, v |-> "Add"],
     [k |-> <<"d","e","l","e","t","e","d">>, v |-> "Delete"],
     [k |-> <<"r","e","m","o","v","e","d">>, v |-> "Delete"] >>

excludeWords ==
  { <<"t","h","e">>, <<"a","n","d">>, <<"o","r">>, <<"b","u","t">>, <<"i","n">>, <<"o","n">>,
    <<"a","t">>, <<"t","o">>, <<"f","o","r">>, <<"o","f">>, <<"w","i","t","h">>, <<"b","y">>,
    <<"m","a","d","e">>, <<"s","o","m","e">>, <<"c","h","a","n","g","e","s">>, <<"a","l","s","o">>,
    <<"g","a","v","e">>, <<"a","c","c","e","s","s">>, <<"i","t">>, <<"t","h","e","m">>,
    <<"t","h","i","s">>, <<"t","h","a","t">>,
    <<"a","d","d">>, <<"m","o","d","i","f","y">>, <<"d","e","l","e","t","e">>, <<"u","s","e","r">>,
    <<"s","t","o","r","y">>, <<"u","p","d","a","t","e","d">>, <<"c","r","e","a","t","e","d">>,
    <<"m","o","d","i","f","i","e","d">>,
    <<"c","h","a","n","g","e","d">>, <<"n","e","w">>, <<"o","l","d">>,
    <<"e","x","i","s","t","i","n","g">>, <<"c","u","r","r","e","n","t">>,
    <<"p","r","e","v","i","o","u","s">>, <<"n","e","x","t">>, <<"f","i","r","s","t">>,
    <<"l","a","s","t">> }

\* the names the fallback scan refuses besides excludeWords
fallbackRefused ==
  { <<"A","d","d">>, <<"M","o","d","i","f","y">>, <<"D","e","l","e","t","e">>,
    <<"U","s","e","r">>, <<"S","t","o","r","y">> }

defaultModule == "force-app/main/default"

UnknownComponent == <<"U","n","k","n","o","w","n","C","o","m","p","o","n","e","n","t">>

\* the alternation (class|trigger|component|flow|object|field|layout|profile|label)
typeWords ==
  { <<"c","l","a","s","s">>, <<"t","r","i","g","g","e","r">>,
    <<"c","o","m","p","o","n","e","n","t">>, <<"f","l","o","w">>, <<"o","b","j","e","c","t">>,
    <<"f","i","e","l","d">>, <<"l","a","y","o","u","t">>, <<"p","r","o","f","i","l","e">>,
    <<"l","a","b","e","l">> }

\* the alternation (class|trigger) of the fourth pattern
apexTypeWords == { <<"c","l","a","s","s">>, <<"t","r","i","g","g","e","r">> }

apexWord == <<"a","p","e","x">>

\* key in typeMap (own keys only)
InTypeMap(key) == \E i \in 1..Len(typeMap) : typeMap[i].k = key
\* typeMap[key]
TypeMapAt(key) == typeMap[CHOOSE i \in 1..Len(typeMap) : typeMap[i].k = key].v

\* a mutant of defaultActionOf: the last keyword found wins
defaultActionOf_lastHit(desc) ==
  LET lowerDesc == toLowerCase(desc)
      hits == {i \in 1..Len(actionMap) : includes(lowerDesc, actionMap[i].k)}
  IN IF hits = {} THEN "Add"
     ELSE actionMap[CHOOSE i \in hits : \A j \in hits : j <= i].v

\* the loop over Object.entries(actionMap): the first keyword, in lexicon
\* order, that the lower-cased description includes; 'Add' when none does
defaultActionOf(desc) ==
  LET lowerDesc == toLowerCase(desc)
      hits == {i \in 1..Len(actionMap) : includes(lowerDesc, actionMap[i].k)}
  IN IF hits = {} THEN "Add" ELSE actionMap[Min(hits)].v

-----------------------------------------------------------------------------
(* parseChangesToCopadoFormat: the regular expressions                     *)
(* A match is [ok, index, end, g1, g2]: index and end are 1-based, end is  *)
(* the position after the match, g2 = << >> for a group that is undefined. *)

NoMatch == [ok |-> FALSE, index |-> 0, end |-> 0, g1 |-> << >>, g2 |-> << >>]

\* the alternative of `words` that matches at p under the i flag (the
\* alternatives are no prefixes of each other, so at most one does)
WordsAt(s, p, words) == {w \in words : OccursAtIgnoreCase(s, p, w)}

\* /\b([A-Z][A-Za-z0-9_]*)\s+(class|...|label)\b/gi at p
MatchNameType(s, p) ==
  IF ~(p <= Len(s) /\ WordBoundary(s, p) /\ IsLetter(s[p])) THEN NoMatch
  ELSE LET e1 == WordRunEnd(s, p)
       IN IF ~(e1 <= Len(s) /\ IsSpace(s[e1])) THEN NoMatch
          ELSE LET e2 == SpaceRunEnd(s, e1)
                   ws == {w \in WordsAt(s, e2, typeWords) : WordBoundary(s, e2 + Len(w))}
               IN IF ws = {} THEN NoMatch
                  ELSE LET w == CHOOSE x \in ws : TRUE
                       IN [ok |-> TRUE, index |-> p, end |-> e2 + Len(w),
                           g1 |-> SubSeq(s, p, e1 - 1),
                           g2 |-> SubSeq(s, e2, e2 + Len(w) - 1)]

\* (class|...|label)\s+([A-Z][A-Za-z0-9_]*)\b under the i flag, the type word
\* at q; the match is reported as starting at `index`
TypeNameTail(s, index, q) ==
  LET ws == WordsAt(s, q, typeWords)
  IN IF ws = {} THEN NoMatch
     ELSE LET w  == CHOOSE x \in ws : TRUE
              e1 == q + Len(w)
          IN IF ~(e1 <= Len(s) /\ IsSpace(s[e1])) THEN NoMatch
             ELSE LET e2 == SpaceRunEnd(s, e1)
                  IN IF ~(e2 <= Len(s) /\ IsLetter(s[e2])) THEN NoMatch
                     ELSE LET e3 == WordRunEnd(s, e2)
                          IN [ok |-> TRUE, index |-> index, end |-> e3,
                              g1 |-> SubSeq(s, q, e1 - 1),
                              g2 |-> SubSeq(s, e2, e3 - 1)]

\* /\b(class|...|label)\s+([A-Z][A-Za-z0-9_]*)\b/gi at p
MatchTypeName(s, p) ==
  IF ~(p <= Len(s) /\ WordBoundary(s, p)) THEN NoMatch
  ELSE TypeNameTail(s, p, p)

\* /\b(?:apex\s+)?(class|...|label)\s+([A-Z][A-Za-z0-9_]*)\b/gi at p: the
\* optional prefix is tried first, then the match without it
MatchApexTypeName(s, p) ==
  IF ~(p <= Len(s) /\ WordBoundary(s, p)) THEN NoMatch
  ELSE LET withApex ==
             IF /\ OccursAtIgnoreCase(s, p, apexWord)
                /\ p + Len(apexWord) <= Len(s)
                /\ IsSpace(s[p + Len(apexWord)])
             THEN TypeNameTail(s, p, SpaceRunEnd(s, p + Len(apexWord)))
             ELSE NoMatch
       IN IF withApex.ok THEN withApex ELSE TypeNameTail(s, p, p)

\* /\b([A-Z][A-Za-z0-9_]*)\s+apex\s+(class|trigger)\b/gi at p
MatchNameApexType(s, p) ==
  IF ~(p <= Len(s) /\ WordBoundary(s, p) /\ IsLetter(s[p])) THEN NoMatch
  ELSE LET e1 == WordRunEnd(s, p)
       IN IF ~(e1 <= Len(s) /\ IsSpace(s[e1])) THEN NoMatch
          ELSE LET e2 == SpaceRunEnd(s, e1)
                   e3 == e2 + Len(apexWord)
               IN IF ~(OccursAtIgnoreCase(s, e2, apexWord) /\ e3 <= Len(s) /\ IsSpace(s[e3]))
                  THEN NoMatch
                  ELSE LET e4 == SpaceRunEnd(s, e3)
                           ws == {w \in WordsAt(s, e4, apexTypeWords) :
                                    WordBoundary(s, e4 + Len(w))}
                       IN IF ws = {} THEN NoMatch
                          ELSE LET w == CHOOSE x \in ws : TRUE
                               IN [ok |-> TRUE, index |-> p, end |-> e4 + Len(w),
                                   g1 |-> SubSeq(s, p, e1 - 1),
                                   g2 |-> SubSeq(s, e4, e4 + Len(w) - 1)]

\* /["']([A-Z][A-Za-z0-9_]+)["']/g at p (no i flag)
MatchQuoted(s, p) ==
  IF ~(p + 1 <= Len(s) /\ s[p] \in {"\"", "'"} /\ IsUpper(s[p + 1])) THEN NoMatch
  ELSE LET e1 == WordRunEnd(s, p + 2)
       IN IF e1 >= p + 3 /\ e1 <= Len(s) /\ s[e1] \in {"\"", "'"}
          THEN [ok |-> TRUE, index |-> p, end |-> e1 + 1,
                g1 |-> SubSeq(s, p + 1, e1 - 1), g2 |-> << >>]
          ELSE NoMatch

\* /\b([A-Z][A-Za-z0-9_]{2,})\b/g at p (no i flag)
MatchFallback(s, p) ==
  IF ~(p <= Len(s) /\ WordBoundary(s, p) /\ IsUpper(s[p])) THEN NoMatch
  ELSE LET e1 == WordRunEnd(s, p)
       IN IF e1 - p >= 3
          THEN [ok |-> TRUE, index |-> p, end |-> e1,
                g1 |-> SubSeq(s, p, e1 - 1), g2 |-> << >>]
          ELSE NoMatch

\* componentPatterns, in the order of the array; 6 is fallbackPattern
NumPatterns == 5
FallbackPatternId == 6

MatchAt(k, s, p) ==
  CASE k = 1 -> MatchNameType(s, p)
    [] k = 2 -> MatchTypeName(s, p)
    [] k = 3 -> MatchApexTypeName(s, p)
    [] k = 4 -> MatchNameApexType(s, p)
    [] k = 5 -> MatchQuoted(s, p)
    [] OTHER -> MatchFallback(s, p)

\* the while loop over pattern.exec(description): the leftmost match at or
\* after lastIndex, then on from the end of that match
RECURSIVE ExecAll(_, _, _)
ExecAll(k, s, from) ==
  IF from > Len(s) THEN << >>
  ELSE LET m == MatchAt(k, s, from)
       IN IF m.ok THEN << m >> \o ExecAll(k, s, m.end)
          ELSE ExecAll(k, s, from + 1)

-----------------------------------------------------------------------------
(* parseChangesToCopadoFormat: collection                                  *)

\* foundComponents is a Map: a sequence of [n, t] in insertion order.
MapHas(found, name) == \E i \in 1..Len(found) : found[i].n = name

\* Map.prototype.set: a new key is appended, an existing key keeps its place
\* and takes the new value
MapSet(found, name, type) ==
  IF MapHas(found, name)
  THEN [i \in 1..Len(found) |->
          IF found[i].n = name THEN [n |-> name, t |-> type] ELSE found[i]]
  ELSE Append(found, [n |-> name, t |-> type])

\* a mutant of IsComponentName: the length test is off by one
IsComponentName_longerThanTwo(name) ==
  /\ Len(name) > 2
  /\ toLowerCase(name) \notin excludeWords
  /\ IsUpper(name[1])
  /\ \A i \in 2..Len(name) : IsWordChar(name[i])

\* a mutant of IsComponentName: the test of the name ignores case
IsComponentName_ignoreCase(name) ==
  /\ Len(name) > 1
  /\ toLowerCase(name) \notin excludeWords
  /\ IsLetter(name[1])
  /\ \A i \in 2..Len(name) : IsWordChar(name[i])

\* the filter on componentName: truthy, longer than one character, not an
\* excluded word, and /^[A-Z][A-Za-z0-9_]*$/ (no i flag)
IsComponentName(name) ==
  /\ Len(name) > 1
  /\ toLowerCase(name) \notin excludeWords
  /\ IsUpper(name[1])
  /\ \A i \in 2..Len(name) : IsWordChar(name[i])

\* which group is the name and which the type: [ok, name, type]
Classify(m) ==
  IF m.g1 # << >> /\ m.g2 # << >>
  THEN LET secondKey == toLowerCase(m.g2)
           firstKey  == toLowerCase(m.g1)
       IN IF InTypeMap(secondKey)
          THEN [ok |-> TRUE, name |-> m.g1, type |-> TypeMapAt(secondKey)]
          ELSE IF InTypeMap(firstKey)
          THEN [ok |-> TRUE, name |-> m.g2, type |-> TypeMapAt(firstKey)]
          ELSE [ok |-> FALSE, name |-> << >>, type |-> ""]
  ELSE [ok |-> TRUE, name |-> m.g1, type |-> "ApexClass"]

\* a mutant of AcceptedMatch: the filter on componentName is dropped
AcceptedMatch_noFilter(m) == Classify(m).ok

\* the match ends in foundComponents.set: its groups are classified and the
\* name passes the filter
AcceptedMatch(m) == Classify(m).ok /\ IsComponentName(Classify(m).name)

\* the calls foundComponents.set(name, type) that the matches ms lead to
RECURSIVE SetCallsOf(_)
SetCallsOf(ms) ==
  IF ms = << >> THEN << >>
  ELSE LET c == Classify(Head(ms))
       IN (IF AcceptedMatch(Head(ms)) THEN << [name |-> c.name, type |-> c.type] >>
           ELSE << >>) \o SetCallsOf(Tail(ms))

\* the for loop over componentPatterns, from pattern k on: every call of
\* foundComponents.set, in the order the calls are made
RECURSIVE SetCallsFrom(_, _)
SetCallsFrom(desc, k) ==
  IF k > NumPatterns THEN << >>
  ELSE SetCallsOf(ExecAll(k, desc, 1)) \o SetCallsFrom(desc, k + 1)

SetCalls(desc) == SetCallsFrom(desc, 1)

RECURSIVE ApplySetCalls(_, _)
ApplySetCalls(found, cs) ==
  IF cs = << >> THEN found
  ELSE ApplySetCalls(MapSet(found, Head(cs).name, Head(cs).type), Tail(cs))

\* foundComponents after the primary patterns
PrimaryComponents(desc) == ApplySetCalls(<< >>, SetCalls(desc))

ContextWindow == 20
MinFallbackLength == 2

\* a name the fallback scan accepts
IsFallbackName(name) ==
  /\ toLowerCase(name) \notin excludeWords
  /\ Len(name) > MinFallbackLength
  /\ name \notin fallbackRefused

\* the type the fallback infers for the match m: the first typeMap keyword,
\* in insertion order, that occurs in the text around the name
InferredType(desc, m) ==
  LET index0     == m.index - 1
      name       == m.g1
      beforeText == toLowerCase(substring(desc,
                       IF index0 - ContextWindow > 0 THEN index0 - ContextWindow ELSE 0,
                       index0))
      afterText  == toLowerCase(substring(desc, index0 + Len(name),
                       index0 + Len(name) + ContextWindow))
      contextText == beforeText \o <<" ">> \o afterText
      hits == {i \in 1..Len(typeMap) : includes(contextText, typeMap[i].k)}
  IN IF hits = {} THEN "ApexClass" ELSE typeMap[Min(hits)].v

RECURSIVE ProcessFallback(_, _, _)
ProcessFallback(found, desc, ms) ==
  IF ms = << >> THEN found
  ELSE LET m == Head(ms)
       IN ProcessFallback(
            IF IsFallbackName(m.g1) THEN MapSet(found, m.g1, InferredType(desc, m))
            ELSE found,
            desc, Tail(ms))

\* a mutant of FoundComponents: the fallback scan runs in every case
FoundComponents_alwaysFallback(desc) ==
  ProcessFallback(PrimaryComponents(desc), desc, ExecAll(FallbackPatternId, desc, 1))

\* foundComponents after the fallback, which runs on an empty map only
FoundComponents(desc) ==
  LET primary == PrimaryComponents(desc)
  IN IF Len(primary) = 0
     THEN ProcessFallback(<< >>, desc, ExecAll(FallbackPatternId, desc, 1))
     ELSE primary

ChangeOf(action, name, type) == [a |-> action, n |-> name, t |-> type, m |-> defaultModule]

\* a mutant of parseChangesToCopadoFormat: no placeholder record
parseChangesToCopadoFormat_noPlaceholder(desc) ==
  LET found == FoundComponents(desc)
  IN [i \in 1..Len(found) |-> ChangeOf(defaultActionOf(desc), found[i].n, found[i].t)]

parseChangesToCopadoFormat(desc) ==
  LET defaultAction == defaultActionOf(desc)
      found == FoundComponents(desc)
  IN IF Len(found) > 0
     THEN [i \in 1..Len(found) |-> ChangeOf(defaultAction, found[i].n, found[i].t)]
     ELSE << ChangeOf(defaultAction, UnknownComponent, "ApexClass") >>

-----------------------------------------------------------------------------
(* The three layers are checked apart; a layer that a specification does   *)
(* not exercise stays idle.                                                *)

IdleTool ==
  /\ COPADO_API_KEY = "undefined"
  /\ env = "undefined"
  /\ globalKey = "undefined"
  /\ keyWrites = 0
  /\ calls = << >>
  /\ requests = << >>

IdleParse ==
  /\ description = << >>
  /\ shape = [kind |-> "idle"]
  /\ changes = << >>
  /\ parsePc = "idle"

IdleIds ==
  /\ userStoryIds = << >>
  /\ idsShape = [kind |-> "idle"]
  /\ cleanedIds = << >>
  /\ rejoinedIds = << >>
  /\ idsPc = "idle"

IdleStatus ==
  /\ statusResult = << >>
  /\ statusShape = [kind |-> "idle"]
  /\ statusFound = << >>
  /\ statusPc = "idle"

-----------------------------------------------------------------------------
(* Inputs of the identifier harness                                        *)

MaxIdPieces == 4
MaxIds == 3

IdA == <<"a","1","u","1">>
IdB == <<"a","1","u","2">>
IdC == <<"a","1","u","3">>

\* the pieces a free input is put together from
IdPieces ==
  { IdA, IdB, <<",">>, <<" ">>, <<"a","n","d">>, <<" ","A","N","D"," ">>,
    <<"'">>, <<"[">>, <<"]">> }

IdPieceSeqs == UNION { [1..n -> IdPieces] : n \in 0..MaxIdPieces }

\* the formats the source lists, and the examples of the documentation
IdExampleSingle == <<"a","0","u","1","v","0","0","0","0","1","f","G","K","5","P","A","A","W">>
IdExampleCommaAnd ==
  <<"a","1","u","1",","," ","a","1","u","2"," ","a","n","d"," ","a","1","u","3">>
IdExampleQuotedArray ==
  <<"[","'","a","1","u","1","'",","," ","'","a","1","u","2","'","]">>

IdExamples ==
  { IdExampleSingle,
    <<"a","1","u","1",","," ","a","1","u","2">>,
    <<"a","1","u","1"," ","a","n","d"," ","a","1","u","2">>,
    <<"[","\"","a","1","u","1","\"",","," ","\"","a","1","u","2","\"","]">>,
    IdExampleCommaAnd,
    IdExampleQuotedArray }

\* a written list: identifiers, a separator in every gap, a way of wrapping
ListIds == { IdA, IdB, IdC }
ListSeparators == { <<",">>, <<","," ">>, <<" ","a","n","d"," ">>, <<" ",","," ">> }
ListWraps == { "plain", "single", "double" }

Quote(wrap) == IF wrap = "single" THEN <<"'">> ELSE IF wrap = "double" THEN <<"\"">> ELSE << >>

RECURSIVE ListBody(_, _, _)
ListBody(ids, seps, wrap) ==
  IF Len(ids) = 1 THEN Quote(wrap) \o ids[1] \o Quote(wrap)
  ELSE Quote(wrap) \o ids[1] \o Quote(wrap) \o seps[1] \o ListBody(Tail(ids), Tail(seps), wrap)

ListText(ids, seps, wrap) ==
  IF wrap = "plain" THEN ListBody(ids, seps, wrap)
  ELSE <<"[">> \o ListBody(ids, seps, wrap) \o <<"]">>

-----------------------------------------------------------------------------
(* The identifier harness: parse, join with commas, parse again             *)

InitIds ==
  /\ IdleTool
  /\ IdleParse
  /\ IdleStatus
  /\ \/ /\ userStoryIds \in { Concat(ps) : ps \in IdPieceSeqs } \cup IdExamples
        /\ idsShape = [kind |-> "free"]
     \/ \E n \in 1..MaxIds :
          \E ids \in [1..n -> ListIds], seps \in [1..(n - 1) -> ListSeparators],
             wrap \in ListWraps :
            /\ userStoryIds = ListText(ids, seps, wrap)
            /\ idsShape = [kind |-> "list", ids |-> ids]
  /\ cleanedIds = << >>
  /\ rejoinedIds = << >>
  /\ idsPc = "input"

ParseIds ==
  /\ idsPc = "input"
  /\ cleanedIds' = parseUserStoryIds(userStoryIds)
  /\ idsPc' = "parsed"
  /\ UNCHANGED << userStoryIds, idsShape, rejoinedIds >>
  /\ UNCHANGED << toolVars, parseVars, statusVars >>

RejoinIds ==
  /\ idsPc = "parsed"
  /\ rejoinedIds' = parseUserStoryIds(join(cleanedIds, <<",">>))
  /\ idsPc' = "rejoined"
  /\ UNCHANGED << userStoryIds, idsShape, cleanedIds >>
  /\ UNCHANGED << toolVars, parseVars, statusVars >>

NextIds == ParseIds \/ RejoinIds

SpecIds == InitIds /\ [][NextIds]_vars

-----------------------------------------------------------------------------
(* Inputs of the parser harness                                            *)

MaxWords == 3
MaxFiller == 2

Foo == <<"F","o","o">>
Bar == <<"B","a","r">>
AccountController == <<"A","c","c","o","u","n","t","C","o","n","t","r","o","l","l","e","r">>
classWord == <<"c","l","a","s","s">>
triggerWord == <<"t","r","i","g","g","e","r">>
flowWord == <<"f","l","o","w">>
modifiedWord == <<"m","o","d","i","f","i","e","d">>
deletedWord == <<"d","e","l","e","t","e","d">>

\* free descriptions: up to MaxWords of these words, one space between them
DescWords ==
  { Foo, Bar, <<"U","s","e","r">>, classWord, triggerWord, apexWord,
    modifiedWord, deletedWord, <<"'","F","o","o","'">> }

JoinWords(ws) == join(ws, <<" ">>)

FreeDescriptions == { JoinWords(ws) : ws \in UNION { [1..n -> DescWords] : n \in 0..MaxWords } }

\* the examples of the tool's own documentation and of the spec
ExampleApexClass ==
  <<"I"," ","m","o","d","i","f","i","e","d"," ","t","h","e"," ","A","c","c","o","u","n","t","C","o","n","t","r","o","l","l","e","r"," ","a","p","e","x"," ","c","l","a","s","s">>
ExampleNoChanges == <<"n","o"," ","c","h","a","n","g","e","s"," ","h","e","r","e">>
ExampleTip ==
  <<"M","o","d","i","f","i","e","d"," ","t","h","e"," ","A","c","c","o","u","n","t","C","o","n","t","r","o","l","l","e","r"," ","a","p","e","x"," ","c","l","a","s","s"," ","a","n","d"," ","a","d","d","e","d"," ","n","e","w"," ","C","o","n","t","a","c","t","T","r","i","g","g","e","r"," ","t","r","i","g","g","e","r">>
ExampleClass ==
  <<"I"," ","m","o","d","i","f","i","e","d"," ","t","h","e"," ","A","c","c","o","u","n","t","C","o","n","t","r","o","l","l","e","r"," ","c","l","a","s","s">>

DocExamples == { ExampleApexClass, ExampleNoChanges, ExampleTip, ExampleClass }

\* one mention after filler words: the filler is neither a type keyword nor
\* a name the filter accepts
FillerWords == { <<"I">>, modifiedWord, <<"t","h","e">>, deletedWord, <<"a","n","d">> }
FillerSeqs == UNION { [1..n -> FillerWords] : n \in 0..MaxFiller }

\* names for the one mention: accepted ones, a one-letter one, an excluded
\* one, one that is itself a type keyword
MentionNames ==
  { Foo, <<"A","b">>, <<"A">>, <<"N","e","w">>, <<"F","l","o","w">>, AccountController }

\* two mentions: [form, name, word]
MentionForms == { "NameType", "TypeName", "ApexTypeName", "NameApexType" }
MentionTypeWords == { classWord, triggerWord, flowWord }

MentionsOf(name) ==
  { m \in [form : MentionForms, name : {name}, word : MentionTypeWords] :
      m.form \in {"ApexTypeName", "NameApexType"} => m.word \in apexTypeWords }

MentionText(m) ==
  CASE m.form = "NameType"     -> m.name \o <<" ">> \o m.word
    [] m.form = "TypeName"     -> m.word \o <<" ">> \o m.name
    [] m.form = "ApexTypeName" -> apexWord \o <<" ">> \o m.word \o <<" ">> \o m.name
    [] m.form = "NameApexType" -> m.name \o <<" ">> \o apexWord \o <<" ">> \o m.word

MentionType(m) == TypeMapAt(m.word)

MentionSeparators == { <<" ">>, <<","," ">>, <<" ","a","n","d"," ">> }
MentionPrefixes == { << >>, <<"I"," ","m","o","d","i","f","i","e","d"," ","t","h","e"," ">> }

-----------------------------------------------------------------------------
(* The parser harness                                                      *)

InitParse ==
  /\ IdleTool
  /\ IdleIds
  /\ IdleStatus
  /\ \/ /\ description \in FreeDescriptions \cup DocExamples
        /\ shape = [kind |-> "free"]
     \/ \E filler \in FillerSeqs, name \in MentionNames :
          /\ description = JoinWords(filler \o << name, classWord >>)
          /\ shape = [kind |-> "NameClass", name |-> name, filler |-> filler]
     \/ \E filler \in FillerSeqs, name \in MentionNames :
          /\ description = JoinWords(filler \o << name, apexWord, classWord >>)
          /\ shape = [kind |-> "NameApexClass", name |-> name, filler |-> filler]
     \/ \E m1 \in MentionsOf(Foo), m2 \in MentionsOf(Bar),
           sep \in MentionSeparators, prefix \in MentionPrefixes :
          /\ MentionType(m1) # MentionType(m2)
          /\ description = prefix \o MentionText(m1) \o sep \o MentionText(m2)
          /\ shape = [kind |-> "TwoMentions", first |-> m1, second |-> m2, sep |-> sep]
  /\ changes = << >>
  /\ parsePc = "input"

Parse ==
  /\ parsePc = "input"
  /\ changes' = parseChangesToCopadoFormat(description)
  /\ parsePc' = "parsed"
  /\ UNCHANGED << description, shape >>
  /\ UNCHANGED << toolVars, idsVars, statusVars >>

NextParse == Parse

SpecParse == InitParse /\ [][NextParse]_vars

-----------------------------------------------------------------------------
(* The webhook tools: values                                               *)
(* Keys, identifiers, response texts and message parts are strings, with   *)
(* "undefined" for JavaScript's undefined.  Descriptions, identifier lists,*)
(* commit messages and status values are character sequences, because the  *)
(* tools parse them or change their case; Undefined stands for undefined   *)
(* among them.                                                             *)

Undefined == << "undefined" >>

\* a mutant of Falsy: only undefined counts, the empty string does not
Falsy_undefinedOnly(x) == x = "undefined"

\* !x for a string or undefined
Falsy(x) == x = "undefined" \/ x = ""

\* a || b
OrElse(a, b) == IF Falsy(a) THEN b ELSE a

\* the same for character sequences
FalsyText(x) == x = Undefined \/ x = << >>
OrElseText(a, b) == IF FalsyText(a) THEN b ELSE a

UpperOf == [c \in LowerSet |-> UpperLetters[CHOOSE i \in 1..Len(LowerLetters) : LowerLetters[i] = c]]
\* String.prototype.toUpperCase
toUpperCase(s) == [i \in 1..Len(s) |-> IF s[i] \in LowerSet THEN UpperOf[s[i]] ELSE s[i]]

\* a JavaScript object is a function from its property names; obj.f and obj['f']
EmptyObject == [f \in {} |-> f]
Has(obj, f) == f \in DOMAIN obj
Get(obj, f) == IF Has(obj, f) THEN obj[f] ELSE "undefined"
GetText(obj, f) == IF Has(obj, f) THEN obj[f] ELSE Undefined

commitUrl  == "https://app-api.copado.com/json/v1/webhook/mcwebhook/commit"
promoteUrl == "https://app-api.copado.com/json/v1/webhook/mcwebhook/promotion"
deployUrl  == "https://app-api.copado.com/json/v1/webhook/mcwebhook/promotiondeployment"
statusUrl  == "https://app-api.copado.com/json/v1/webhook/mcwebhook/checkStatusAction"

sourceEnvironmentId == "a0c8c00000LpAxEAAV"

ApiKeyRequired ==
  << "API key is required. Provide it as a parameter or set COPADO_API_KEY environment variable." >>
NoValidIds ==
  << "No valid user story IDs provided. Please provide at least one user story ID." >>
UnknownError == << "Unknown error occurred" >>

commitMessagePrefix == <<"C","o","m","m","i","t"," ","c","h","a","n","g","e","s",":"," ">>
Submitted == <<"S","u","b","m","i","t","t","e","d">>
Completed == <<"c","o","m","p","l","e","t","e","d">>
UnknownStatus == <<"U","n","k","n","o","w","n">>

\* fetch(url, {method, headers, body}) as issued by call number i
Request(i, url, authToken, payload) ==
  [ call    |-> i,
    url     |-> url,
    method  |-> "POST",
    headers |-> [ contentType      |-> "application/json",
                  copadoWebhookKey |-> authToken,
                  userAgent        |-> "Copado-MCP-Server/1.0.0" ],
    body    |-> payload ]

-----------------------------------------------------------------------------
(* The webhook tools: responses                                            *)

BodyPlain     == "Accepted"
BodyNull      == "null"
BodyEmpty     == "{}"
BodyJob       == "{\"jobExecution\":{\"Id\":\"J1\",\"copado__Status__c\":\"In Progress\",\"copado__DataJson__c\":\"{\\\"userStoryIds\\\":[\\\"a1u1\\\"]}\"}}"
BodyTopLevel  == "{\"status\":\"FAILED\",\"commitId\":\"C1\",\"promotionId\":\"P1\"}"
BodyNested    == "{\"status\":\"Completed\",\"jobExecution\":{\"status\":\"queued\"}}"
BodyDataJson  == "{\"userStoryIds\":[\"a1u1\"]}"
BodyDenied    == "{\"error\":\"invalid key\"}"

OkBodies == { BodyPlain, BodyNull, BodyEmpty, BodyJob, BodyTopLevel, BodyNested }

\* JSON.parse on the texts above: it throws, gives null, or gives an object
JSONparse(text) ==
  CASE text = BodyNull ->
         [threw |-> FALSE, isNull |-> TRUE]
    [] text = BodyEmpty ->
         [threw |-> FALSE, isNull |-> FALSE, value |-> EmptyObject]
    [] text = BodyJob ->
         [threw |-> FALSE, isNull |-> FALSE,
          value |-> [jobExecution |-> [Id |-> "J1",
                                       copado__Status__c |-> <<"I","n"," ","P","r","o","g","r","e","s","s">>,
                                       copado__DataJson__c |-> BodyDataJson]]]
    [] text = BodyTopLevel ->
         [threw |-> FALSE, isNull |-> FALSE,
          value |-> [status |-> <<"F","A","I","L","E","D">>, commitId |-> "C1", promotionId |-> "P1"]]
    [] text = BodyNested ->
         [threw |-> FALSE, isNull |-> FALSE,
          value |-> [status |-> <<"C","o","m","p","l","e","t","e","d">>,
                     jobExecution |-> [status |-> <<"q","u","e","u","e","d">>]]]
    [] text = BodyDataJson ->
         [threw |-> FALSE, isNull |-> FALSE,
          value |-> [userStoryIds |-> << "a1u1" >>]]
    [] text = BodyDenied ->
         [threw |-> FALSE, isNull |-> FALSE, value |-> [error |-> "invalid key"]]
    [] OTHER ->
         [threw |-> TRUE]

\* what awaiting fetch() and response.text() can give: a rejection (with an
\* Error or with another value), or a response with its status and its text
Responses ==
  { [kind |-> "throw", isErrorInstance |-> TRUE,  message |-> "fetch failed"],
    [kind |-> "throw", isErrorInstance |-> FALSE, message |-> "aborted"],
    [kind |-> "http", ok |-> FALSE, status |-> "401", statusText |-> "Unauthorized",
     text |-> BodyDenied] }
  \cup { [kind |-> "http", ok |-> TRUE, status |-> "200", statusText |-> "OK",
          text |-> b] : b \in OkBodies }

\* the message that the catch block of a tool reports for a rejection
ThrownMessage(resp) ==
  IF resp.isErrorInstance THEN << resp.message >> ELSE UnknownError

\* a mutant of FailedMessage: the text of the response is left out
FailedMessage_noBody(prefix, resp) ==
  << prefix, ": ", resp.status, " ", resp.statusText >>

\* `${prefix}: ${response.status} ${response.statusText}. Response: ${responseText}`
FailedMessage(prefix, resp) ==
  << prefix, ": ", resp.status, " ", resp.statusText, ". Response: ", resp.text >>

NullPropertyError == << "Cannot read properties of null (reading 'jobExecution')" >>

\* the catch block of every tool: the report carries the message, names the
\* arguments of the call, and is flagged isError
ErrorReport(errorMessage, args) ==
  [isError |-> TRUE, errorMessage |-> errorMessage, args |-> args]

\* a report of the try block has no isError property
NoReport == [pending |-> TRUE]

-----------------------------------------------------------------------------
(* The webhook tools: what each tool reports once its response arrived     *)
(* The time stamps of the reports (new Date()) are left out.               *)

\* a mutant of ResultOf: every tool's fallback object has a status
ResultOf_statusInFallback(parsed, fallback) ==
  IF parsed.threw THEN fallback @@ [status |-> Completed] ELSE parsed.value

\* JSON.parse(responseText), or the object the catch of the parse puts in its place
ResultOf(parsed, fallback) == IF parsed.threw THEN fallback ELSE parsed.value

\* result.jobExecution || {}
JobExecutionOf(result) ==
  IF Has(result, "jobExecution") THEN result.jobExecution ELSE EmptyObject

commitOutcome(call, resp) ==
  IF resp.kind = "throw" THEN ErrorReport(ThrownMessage(resp), call.args)
  ELSE IF ~resp.ok
  THEN ErrorReport(FailedMessage("Copado commit request failed", resp), call.args)
  ELSE LET parsed == JSONparse(resp.text)
       IN IF ~parsed.threw /\ parsed.isNull
          THEN ErrorReport(NullPropertyError, call.args)
          ELSE LET result == ResultOf(parsed, [message |-> resp.text, status |-> Completed])
                   jobExecution == JobExecutionOf(result)
                   jobExecutionId == Get(jobExecution, "Id")
               IN [ isError        |-> FALSE,
                    userStoryId    |-> call.args.userStoryId,
                    commitId       |-> OrElse(Get(result, "commitId"), jobExecutionId),
                    jobExecutionId |-> jobExecutionId,
                    status         |-> OrElseText(GetText(jobExecution, "copado__Status__c"),
                                                  Submitted),
                    message        |-> call.local.message,
                    changes        |-> call.local.parsedChanges ]

promoteOutcome(call, resp) ==
  IF resp.kind = "throw" THEN ErrorReport(ThrownMessage(resp), call.args)
  ELSE IF ~resp.ok
  THEN ErrorReport(FailedMessage("Copado promotion request failed", resp), call.args)
  ELSE LET parsed == JSONparse(resp.text)
       IN IF ~parsed.threw /\ parsed.isNull
          THEN ErrorReport(NullPropertyError, call.args)
          ELSE LET result == ResultOf(parsed, [message |-> resp.text, status |-> Completed])
                   jobExecution == JobExecutionOf(result)
                   deploymentJobExecution ==
                     IF Has(result, "deploymentJobExecution")
                     THEN result.deploymentJobExecution ELSE EmptyObject
               IN [ isError                 |-> FALSE,
                    promotionId             |-> OrElse(Get(result, "promotionId"),
                                                       Get(jobExecution, "copado__Promotion__c")),
                    promotionJobExecutionId |-> Get(jobExecution, "Id"),
                    status                  |-> OrElseText(GetText(jobExecution, "copado__Status__c"),
                                                           Submitted),
                    executeDeployment       |-> call.args.executeDeployment,
                    deploymentDryRun        |-> call.args.deploymentDryRun,
                    deploymentInfo          |->
                      IF call.args.executeDeployment
                      THEN << Get(deploymentJobExecution, "Id"),
                              Get(deploymentJobExecution, "copado__Deployment__c"),
                              IF call.args.deploymentDryRun THEN "VALIDATION" ELSE "DEPLOYMENT" >>
                      ELSE << >>,
                    userStories             |-> call.local.parsedUserStoryIds ]

\* the inner try of deploy_promotion: the user stories and branches named by
\* the job's copado__DataJson__c, nothing when that text cannot be used
AdditionalInfo(jobExecution) ==
  LET dataJson == JSONparse(OrElse(Get(jobExecution, "copado__DataJson__c"), BodyEmpty))
  IN IF dataJson.threw \/ dataJson.isNull
     THEN [userStories |-> << >>, branches |-> << >>]
     ELSE [userStories |-> IF Has(dataJson.value, "userStoryIds")
                           THEN dataJson.value.userStoryIds ELSE << >>,
           branches    |-> IF Has(dataJson.value, "userStoryBranches")
                           THEN dataJson.value.userStoryBranches ELSE << >>]

deployOutcome(call, resp) ==
  IF resp.kind = "throw" THEN ErrorReport(ThrownMessage(resp), call.args)
  ELSE IF ~resp.ok
  THEN ErrorReport(FailedMessage("Copado API request failed", resp), call.args)
  ELSE LET parsed == JSONparse(resp.text)
       IN IF ~parsed.threw /\ parsed.isNull
          THEN ErrorReport(NullPropertyError, call.args)
          ELSE LET result == ResultOf(parsed, [message |-> resp.text, status |-> Completed])
                   jobExecution == JobExecutionOf(result)
               IN [ isError        |-> FALSE,
                    promotionId    |-> call.args.promotionId,
                    jobExecutionId |-> Get(jobExecution, "Id"),
                    deploymentId   |-> Get(jobExecution, "copado__Deployment__c"),
                    status         |-> GetText(jobExecution, "copado__Status__c"),
                    template       |-> Get(jobExecution, "copado__Template__c"),
                    additionalInfo |-> AdditionalInfo(jobExecution) ]

\* a mutant of StatusBucket: the switch is on status itself, case and all
StatusBucket_caseSensitive(status) ==
  LET lower == status
  IN CASE lower \in { <<"c","o","m","p","l","e","t","e","d">>, <<"s","u","c","c","e","s","s">> } ->
            [statusColor |-> "GREEN",
             nextSteps |-> "Deployment completed successfully! Check your destination org."]
       [] lower \in { <<"f","a","i","l","e","d">>, <<"e","r","r","o","r">> } ->
            [statusColor |-> "RED",
             nextSteps |-> "Check the error details and retry if needed."]
       [] lower \in { <<"i","n"," ","p","r","o","g","r","e","s","s">>, <<"r","u","n","n","i","n","g">> } ->
            [statusColor |-> "BLUE",
             nextSteps |-> "Deployment is still running. Check again in a few minutes."]
       [] lower \in { <<"n","o","t"," ","s","t","a","r","t","e","d">>, <<"q","u","e","u","e","d">> } ->
            [statusColor |-> "YELLOW",
             nextSteps |-> "Job is queued and will start shortly."]
       [] OTHER ->
            [statusColor |-> "GRAY",
             nextSteps |-> "Unknown status. Check Copado org for details."]

\* the switch on status.toLowerCase()
StatusBucket(status) ==
  LET lower == toLowerCase(status)
  IN CASE lower \in { <<"c","o","m","p","l","e","t","e","d">>, <<"s","u","c","c","e","s","s">> } ->
            [statusColor |-> "GREEN",
             nextSteps |-> "Deployment completed successfully! Check your destination org."]
       [] lower \in { <<"f","a","i","l","e","d">>, <<"e","r","r","o","r">> } ->
            [statusColor |-> "RED",
             nextSteps |-> "Check the error details and retry if needed."]
       [] lower \in { <<"i","n"," ","p","r","o","g","r","e","s","s">>, <<"r","u","n","n","i","n","g">> } ->
            [statusColor |-> "BLUE",
             nextSteps |-> "Deployment is still running. Check again in a few minutes."]
       [] lower \in { <<"n","o","t"," ","s","t","a","r","t","e","d">>, <<"q","u","e","u","e","d">> } ->
            [statusColor |-> "YELLOW",
             nextSteps |-> "Job is queued and will start shortly."]
       [] OTHER ->
            [statusColor |-> "GRAY",
             nextSteps |-> "Unknown status. Check Copado org for details."]

\* a mutant of StatusOf: the top-level status is read when the nested job
\* object has none
StatusOf_topLevelToo(result) ==
  LET jobExecution == IF Has(result, "jobExecution") THEN result.jobExecution ELSE result
  IN OrElseText(OrElseText(OrElseText(GetText(jobExecution, "copado__Status__c"),
                                      GetText(jobExecution, "status")),
                           GetText(result, "status")),
                UnknownStatus)

\* const jobExecution = result.jobExecution || result; const status = ...
StatusOf(result) ==
  LET jobExecution == IF Has(result, "jobExecution") THEN result.jobExecution ELSE result
  IN OrElseText(OrElseText(GetText(jobExecution, "copado__Status__c"),
                           GetText(jobExecution, "status")),
                UnknownStatus)

checkOutcome(call, resp) ==
  IF resp.kind = "throw" THEN ErrorReport(ThrownMessage(resp), call.args)
  ELSE IF ~resp.ok
  THEN ErrorReport(FailedMessage("Copado status check failed", resp), call.args)
  ELSE LET parsed == JSONparse(resp.text)
       IN IF ~parsed.threw /\ parsed.isNull
          THEN ErrorReport(NullPropertyError, call.args)
          ELSE LET result == ResultOf(parsed, [message |-> resp.text])
                   jobExecution == IF Has(result, "jobExecution")
                                   THEN result.jobExecution ELSE result
                   status == StatusOf(result)
                   startTime == OrElse(Get(jobExecution, "CreatedDate"),
                                       Get(jobExecution, "startTime"))
               IN [ isError        |-> FALSE,
                    jobExecutionId |-> call.args.jobExecutionId,
                    status         |-> toUpperCase(status),
                    statusColor    |-> StatusBucket(status).statusColor,
                    nextSteps      |-> StatusBucket(status).nextSteps,
                    started        |-> IF Falsy(startTime) THEN "N/A" ELSE startTime,
                    completed      |-> OrElse(Get(jobExecution, "LastModifiedDate"),
                                              Get(jobExecution, "endTime")),
                    errorDetails   |-> OrElse(Get(jobExecution, "copado__ErrorMessage__c"),
                                              Get(jobExecution, "errorMessage")) ]

-----------------------------------------------------------------------------
(* The status harness: check_job_status reads the status of a parsed       *)
(* response and puts it in its bucket                                      *)

\* the status words of the switch, and the ways to write one in mixed case
StatusWords ==
  { <<"c","o","m","p","l","e","t","e","d">>, <<"s","u","c","c","e","s","s">>, <<"f","a","i","l","e","d">>, <<"e","r","r","o","r">>,
    <<"i","n"," ","p","r","o","g","r","e","s","s">>, <<"r","u","n","n","i","n","g">>, <<"n","o","t"," ","s","t","a","r","t","e","d">>, <<"q","u","e","u","e","d">> }
CaseVariants(w) ==
  { [i \in 1..Len(w) |-> IF i \in U /\ w[i] \in LowerSet THEN UpperOf[w[i]] ELSE w[i]] :
      U \in SUBSET (1..Len(w)) }
\* values that are no status word
OtherStatuses ==
  { <<"b","o","g","u","s">>, <<"c","o","m","p","l","e","t","e">>, <<"c","o","m","p","l","e","t","e","d"," ">>, <<"i","n","p","r","o","g","r","e","s","s">>, <<"i","n"," "," ","p","r","o","g","r","e","s","s">>,
    <<"n","o","t","_","s","t","a","r","t","e","d">>, <<"d","o","n","e">>, <<"U","n","k","n","o","w","n">>, <<"e","r","r","o","r","s">> }
Statuses == UNION { CaseVariants(w) : w \in StatusWords } \cup OtherStatuses

\* an object with the two status properties; Undefined leaves a property out
JobObject(primary, secondary) ==
  (IF primary = Undefined THEN EmptyObject ELSE [copado__Status__c |-> primary])
  @@ (IF secondary = Undefined THEN EmptyObject ELSE [status |-> secondary])

TopValues == { Undefined, << >>, <<"C","o","m","p","l","e","t","e","d">> }
JobPrimaryValues == { Undefined, << >>, <<"I","n"," ","P","r","o","g","r","e","s","s">> }
JobSecondaryValues == { Undefined, << >>, <<"f","a","i","l","e","d">> }

InitStatus ==
  /\ IdleTool
  /\ IdleParse
  /\ IdleIds
  /\ \/ \E st \in Statuses, primary \in BOOLEAN :
          /\ statusResult = (IF primary THEN [copado__Status__c |-> st] ELSE [status |-> st])
          /\ statusShape = [kind |-> "status", status |-> st]
     \/ \E tp \in TopValues, ts \in TopValues :
          \/ /\ statusResult = JobObject(tp, ts)
             /\ statusShape = [kind |-> "top", primary |-> tp, secondary |-> ts]
          \/ \E jp \in JobPrimaryValues, js \in JobSecondaryValues :
               /\ statusResult = JobObject(tp, ts) @@ [jobExecution |-> JobObject(jp, js)]
               /\ statusShape = [kind |-> "nested", primary |-> jp, secondary |-> js,
                                 top |-> ts]
  /\ statusFound = << >>
  /\ statusPc = "input"

ReadStatus ==
  /\ statusPc = "input"
  /\ statusFound' = [status |-> StatusOf(statusResult)]
                    @@ StatusBucket(StatusOf(statusResult))
  /\ statusPc' = "classified"
  /\ UNCHANGED << statusResult, statusShape >>
  /\ UNCHANGED << toolVars, parseVars, idsVars >>

NextStatus == ReadStatus

SpecStatus == InitStatus /\ [][NextStatus]_vars

-----------------------------------------------------------------------------
(* The webhook tools: the calls                                            *)
(* A call runs from its start to its await of fetch() in one step, and     *)
(* from the arrival of the response to its return in a second step; other  *)
(* calls may run in between.                                               *)

MaxCalls == 1

ApiKeys == { "undefined", "", "K1" }
EnvKeys == { "undefined", "K2" }

CommitDescriptions == { ExampleApexClass, ExampleNoChanges }
CommitMessages == { Undefined, << >>, <<"f","i","x">> }
PromoteIds == { IdExampleCommaAnd, IdExampleQuotedArray, << >>, <<" ",","," ","a","n","d"," ">> }

\* const authToken = ... of each tool
commitAuthToken(apiKey)  == apiKey
promoteAuthToken(apiKey) == apiKey
deployAuthToken(apiKey)  == COPADO_API_KEY
checkAuthToken(apiKey)   == OrElse(apiKey, COPADO_API_KEY)

\* a call that threw before fetch(): it returns its error report at once
Refused(call, errorMessage) ==
  /\ calls' = Append(calls, call @@ [pc |-> "done", local |-> EmptyObject,
                                     report |-> ErrorReport(errorMessage, call.args)])
  /\ UNCHANGED requests

\* a mutant of Sent: the request goes out twice
Sent_twice(call, local, url, authToken, payload) ==
  /\ requests' = requests \o << Request(Len(calls) + 1, url, authToken, payload),
                                 Request(Len(calls) + 1, url, authToken, payload) >>
  /\ calls' = Append(calls, call @@ [pc |-> "awaiting", local |-> local,
                                     report |-> NoReport])

\* a call that reached fetch(): the request is out, the call awaits the response
Sent(call, local, url, authToken, payload) ==
  /\ requests' = Append(requests, Request(Len(calls) + 1, url, authToken, payload))
  /\ calls' = Append(calls, call @@ [pc |-> "awaiting", local |-> local,
                                     report |-> NoReport])

commitTool_execute(userStoryId, changesDescription, commitMessage, apiKey) ==
  LET authToken == commitAuthToken(apiKey)
      call == [tool |-> "commit_changes", apiKey |-> apiKey,
               args |-> [userStoryId |-> userStoryId,
                         changesDescription |-> changesDescription,
                         commitMessage |-> commitMessage]]
      parsedChanges == parseChangesToCopadoFormat(changesDescription)
      message == OrElseText(commitMessage, commitMessagePrefix \o changesDescription)
  IN /\ Len(calls) < MaxCalls
     /\ IF Falsy(authToken)
        THEN Refused(call, ApiKeyRequired)
        ELSE Sent(call, [parsedChanges |-> parsedChanges, message |-> message],
                  commitUrl, authToken,
                  [action |-> "Commit", key |-> authToken,
                   payload |-> [userStoryId |-> userStoryId,
                                changes |-> parsedChanges,
                                message |-> message]])
     /\ UNCHANGED << COPADO_API_KEY, env, globalKey, keyWrites >>
     /\ UNCHANGED << parseVars, idsVars, statusVars >>

\* a mutant of promoteTool_execute: the list of identifiers is not tested
promoteTool_execute_noEmptyCheck(ids, executeDeployment, deploymentDryRun, apiKey) ==
  LET authToken == promoteAuthToken(apiKey)
      call == [tool |-> "promote_user_story", apiKey |-> apiKey,
               args |-> [userStoryIds |-> ids,
                         executeDeployment |-> executeDeployment,
                         deploymentDryRun |-> deploymentDryRun]]
      parsedUserStoryIds == parseUserStoryIds(ids)
  IN /\ Len(calls) < MaxCalls
     /\ IF Falsy(authToken)
        THEN Refused(call, ApiKeyRequired)
        ELSE Sent(call, [parsedUserStoryIds |-> parsedUserStoryIds],
                  promoteUrl, authToken,
                  [action |-> "Promotion", key |-> authToken,
                   payload |-> [userStoryIds |-> parsedUserStoryIds,
                                executeDeployment |-> executeDeployment,
                                deploymentDryRun |-> deploymentDryRun,
                                sourceEnvironmentId |-> sourceEnvironmentId]])
     /\ UNCHANGED << COPADO_API_KEY, env, globalKey, keyWrites >>
     /\ UNCHANGED << parseVars, idsVars, statusVars >>

promoteTool_execute(ids, executeDeployment, deploymentDryRun, apiKey) ==
  LET authToken == promoteAuthToken(apiKey)
      call == [tool |-> "promote_user_story", apiKey |-> apiKey,
               args |-> [userStoryIds |-> ids,
                         executeDeployment |-> executeDeployment,
                         deploymentDryRun |-> deploymentDryRun]]
      parsedUserStoryIds == parseUserStoryIds(ids)
  IN /\ Len(calls) < MaxCalls
     /\ IF Falsy(authToken)
        THEN Refused(call, ApiKeyRequired)
        ELSE IF Len(parsedUserStoryIds) = 0
        THEN Refused(call, NoValidIds)
        ELSE Sent(call, [parsedUserStoryIds |-> parsedUserStoryIds],
                  promoteUrl, authToken,
                  [action |-> "Promotion", key |-> authToken,
                   payload |-> [userStoryIds |-> parsedUserStoryIds,
                                executeDeployment |-> executeDeployment,
                                deploymentDryRun |-> deploymentDryRun,
                                sourceEnvironmentId |-> sourceEnvironmentId]])
     /\ UNCHANGED << COPADO_API_KEY, env, globalKey, keyWrites >>
     /\ UNCHANGED << parseVars, idsVars, statusVars >>

deployPromotionTool_execute(promotionId, apiKey) ==
  LET authToken == deployAuthToken(apiKey)
      call == [tool |-> "deploy_promotion", apiKey |-> apiKey,
               args |-> [promotionId |-> promotionId]]
  IN /\ Len(calls) < MaxCalls
     /\ IF Falsy(authToken)
        THEN Refused(call, ApiKeyRequired)
        ELSE Sent(call, EmptyObject, deployUrl, authToken,
                  [action |-> "PromotionDeployment", key |-> authToken,
                   payload |-> [promotionId |-> promotionId]])
     /\ UNCHANGED << COPADO_API_KEY, env, globalKey, keyWrites >>
     /\ UNCHANGED << parseVars, idsVars, statusVars >>

checkJobStatusTool_execute(jobExecutionId, apiKey) ==
  LET authToken == checkAuthToken(apiKey)
      call == [tool |-> "check_job_status", apiKey |-> apiKey,
               args |-> [jobExecutionId |-> jobExecutionId]]
  IN /\ Len(calls) < MaxCalls
     /\ IF Falsy(authToken)
        THEN Refused(call, ApiKeyRequired)
        ELSE Sent(call, EmptyObject, statusUrl, authToken,
                  [action |-> "CheckStatusAction", key |-> authToken,
                   payload |-> [jobexecutionid |-> jobExecutionId]])
     /\ UNCHANGED << COPADO_API_KEY, env, globalKey, keyWrites >>
     /\ UNCHANGED << parseVars, idsVars, statusVars >>

\* the rest of execute of call i, from the response to the return
Respond(i, resp) ==
  /\ calls[i].pc = "awaiting"
  /\ LET call == calls[i]
         report ==
           CASE call.tool = "commit_changes"     -> commitOutcome(call, resp)
             [] call.tool = "promote_user_story" -> promoteOutcome(call, resp)
             [] call.tool = "deploy_promotion"   -> deployOutcome(call, resp)
             [] call.tool = "check_job_status"   -> checkOutcome(call, resp)
     IN calls' = [calls EXCEPT ![i] = [call EXCEPT !.pc = "done", !.report = report]
                                       @@ [response |-> resp]]
  /\ UNCHANGED << COPADO_API_KEY, env, globalKey, keyWrites, requests >>
  /\ UNCHANGED << parseVars, idsVars, statusVars >>

Init ==
  /\ COPADO_API_KEY \in EnvKeys
  /\ env = "undefined"
  /\ globalKey = "undefined"
  /\ keyWrites = 0
  /\ calls = << >>
  /\ requests = << >>
  /\ IdleParse
  /\ IdleIds
  /\ IdleStatus

Next ==
  \/ \E d \in CommitDescriptions, m \in CommitMessages, k \in ApiKeys :
       commitTool_execute("a1u1", d, m, k)
  \/ \E ids \in PromoteIds, e \in BOOLEAN, dry \in BOOLEAN, k \in ApiKeys :
       promoteTool_execute(ids, e, dry, k)
  \/ \E k \in ApiKeys : deployPromotionTool_execute("a0P1", k)
  \/ \E k \in ApiKeys : checkJobStatusTool_execute("J1", k)
  \/ \E i \in 1..Len(calls), resp \in Responses : Respond(i, resp)

\* the tools alone, called with every argument
Spec == Init /\ [][Next]_vars

-----------------------------------------------------------------------------
(* The worker: default.fetch handles the incoming requests, and the tools  *)
(* are called in between                                                   *)

MaxRequests == 2

\* default.fetch of the worker: it stores the key of its env on globalThis
\* and routes the request; the routes change nothing here
Pathnames == { "/sse", "/sse/message", "/mcp", "/" }

\* a mutant of fetch: the handler stores something of the request instead
fetch_storesPathname(pathname) ==
  /\ keyWrites < MaxRequests
  /\ globalKey' = pathname
  /\ keyWrites' = keyWrites + 1
  /\ UNCHANGED << COPADO_API_KEY, env, calls, requests >>
  /\ UNCHANGED << parseVars, idsVars, statusVars >>

fetch(pathname) ==
  /\ keyWrites < MaxRequests
  /\ globalKey' = env
  /\ keyWrites' = keyWrites + 1
  /\ UNCHANGED << COPADO_API_KEY, env, calls, requests >>
  /\ UNCHANGED << parseVars, idsVars, statusVars >>

InitWorker ==
  /\ COPADO_API_KEY \in EnvKeys
  /\ env \in EnvKeys
  /\ globalKey = "undefined"
  /\ keyWrites = 0
  /\ calls = << >>
  /\ requests = << >>
  /\ IdleParse
  /\ IdleIds
  /\ IdleStatus

NextWorker ==
  \/ \E pathname \in Pathnames : fetch(pathname)
  \/ \E k \in ApiKeys : commitTool_execute("a1u1", ExampleApexClass, Undefined, k)
  \/ \E k \in ApiKeys : promoteTool_execute(IdExampleCommaAnd, FALSE, FALSE, k)
  \/ \E k \in ApiKeys : deployPromotionTool_execute("a0P1", k)
  \/ \E k \in ApiKeys : checkJobStatusTool_execute("J1", k)
  \/ \E i \in 1..Len(calls), resp \in Responses : Respond(i, resp)

SpecWorker == InitWorker /\ [][NextWorker]_vars

-----------------------------------------------------------------------------
(* Claims about the authentication token of the tools, under Spec          *)

\* no key: the argument was left out, or it is the empty string
NoKey(x) == x \in { "undefined", "" }

\* the requests that call i issued
RequestsOf(i) == { r \in 1..Len(requests) : requests[r].call = i }

\* call i was refused for want of a token
RefusedForKey(i) ==
  /\ calls[i].pc = "done"
  /\ calls[i].report.isError
  /\ calls[i].report.errorMessage = ApiKeyRequired

\* C1: for each of the four tools, a call with a non-empty apiKey is not
\* refused for want of a token, and the request it sends carries that apiKey
\* as the key of the body and as the copado-webhook-key header, whatever
\* process.env.COPADO_API_KEY is.
C1_ExplicitKeyIsSent ==
  \A i \in 1..Len(calls) :
    ~NoKey(calls[i].apiKey) =>
      /\ ~RefusedForKey(i)
      /\ \A r \in RequestsOf(i) :
           /\ requests[r].body.key = calls[i].apiKey
           /\ requests[r].headers.copadoWebhookKey = calls[i].apiKey

\* C2: for each of the four tools, a call without apiKey, made while
\* process.env.COPADO_API_KEY is set, is not refused for want of a token,
\* and the request it sends carries the process-wide token as the key of the
\* body and as the copado-webhook-key header.
C2_FallsBackToProcessToken ==
  \A i \in 1..Len(calls) :
    (calls[i].apiKey = "undefined" /\ ~NoKey(COPADO_API_KEY)) =>
      /\ ~RefusedForKey(i)
      /\ \A r \in RequestsOf(i) :
           /\ requests[r].body.key = COPADO_API_KEY
           /\ requests[r].headers.copadoWebhookKey = COPADO_API_KEY

\* C3: for each of the four tools, a call made with no apiKey while no
\* process-wide token is set returns a report flagged isError, and issues no
\* request.
C3_NoTokenNoRequest ==
  \A i \in 1..Len(calls) :
    (NoKey(calls[i].apiKey) /\ NoKey(COPADO_API_KEY)) =>
      /\ calls[i].pc = "done"
      /\ calls[i].report.isError
      /\ RequestsOf(i) = {}

C3_Witness ==
  /\ Len(calls) = 1
  /\ calls[1].tool = "deploy_promotion"
  /\ calls[1].apiKey = "undefined"
  /\ COPADO_API_KEY = "undefined"
  /\ RefusedForKey(1)
  /\ requests = << >>

-----------------------------------------------------------------------------
(* Claims about requests and reports of the tools, under Spec              *)

\* call i failed a precondition: no token, or no identifier
FailedPrecondition(i) ==
  /\ calls[i].pc = "done"
  /\ calls[i].report.isError
  /\ calls[i].report.errorMessage \in { ApiKeyRequired, NoValidIds }
  /\ ~Has(calls[i], "response")

\* C12: a tool call either fails a precondition and issues no request, or
\* issues exactly one POST and reports one outcome: a call that awaits its
\* response has one request out, a finished call has none if it failed a
\* precondition and one otherwise, whatever the response was; the requests
\* issued stay as they are, a finished call issues none and keeps its report.
C12_OneRequestOneOutcome ==
  /\ [](\A i \in 1..Len(calls) :
          /\ Cardinality(RequestsOf(i)) <= 1
          /\ \A r \in RequestsOf(i) : requests[r].method = "POST"
          /\ calls[i].pc = "awaiting" => Cardinality(RequestsOf(i)) = 1
          /\ calls[i].pc = "done" =>
               (IF FailedPrecondition(i) THEN RequestsOf(i) = {}
                ELSE Has(calls[i], "response") /\ Cardinality(RequestsOf(i)) = 1))
  /\ [][/\ Len(requests') >= Len(requests)
        /\ SubSeq(requests', 1, Len(requests)) = requests
        /\ \A i \in 1..Len(calls) :
             /\ calls[i].pc = "done" => calls'[i] = calls[i]
             /\ \A r \in (Len(requests) + 1)..Len(requests') : requests'[r].call # i]_vars

C12_Witness ==
  /\ Len(calls) = 1
  /\ calls[1].tool = "promote_user_story"
  /\ calls[1].pc = "done"
  /\ Has(calls[1], "response")
  /\ calls[1].response.kind = "throw"
  /\ calls[1].report.isError
  /\ Len(requests) = 1
  /\ requests[1].call = 1

\* call i got a response that is a failure: a rejection, or a status that is
\* not 2xx
TransportFailure(i) ==
  /\ calls[i].pc = "done"
  /\ Has(calls[i], "response")
  /\ calls[i].response.kind = "http" => ~calls[i].response.ok

\* the report of call i quotes the text
Quotes(i, text) ==
  \E k \in 1..Len(calls[i].report.errorMessage) : calls[i].report.errorMessage[k] = text

\* C13 as claimed: for each tool, a rejection of fetch or a response that is
\* not 2xx gives a report flagged isError that includes the raw body of the
\* response, and the request is not sent again.
C13_FailureCarriesBodyAsClaimed ==
  \A i \in 1..Len(calls) :
    TransportFailure(i) =>
      /\ calls[i].report.isError
      /\ Has(calls[i].response, "text")
      /\ Quotes(i, calls[i].response.text)
      /\ Cardinality(RequestsOf(i)) = 1

\* C13 as amended: a response that is not 2xx gives a report flagged isError
\* that quotes the status, the status text and the raw body; a rejection,
\* which has no body, gives a report flagged isError with the message of the
\* Error thrown, or "Unknown error occurred" for a value that is no Error;
\* in both cases the request is not sent again.
C13_FailureIsReported ==
  \A i \in 1..Len(calls) :
    TransportFailure(i) =>
      /\ calls[i].report.isError
      /\ Cardinality(RequestsOf(i)) = 1
      /\ IF calls[i].response.kind = "http"
         THEN /\ Quotes(i, calls[i].response.text)
              /\ Quotes(i, calls[i].response.status)
              /\ Quotes(i, calls[i].response.statusText)
         ELSE calls[i].report.errorMessage =
                IF calls[i].response.isErrorInstance
                THEN << calls[i].response.message >>
                ELSE << "Unknown error occurred" >>

C13_Witness ==
  /\ Len(calls) = 1
  /\ calls[1].tool = "commit_changes"
  /\ TransportFailure(1)
  /\ calls[1].response.kind = "http"
  /\ calls[1].response.status = "401"
  /\ calls[1].report.isError
  /\ Quotes(1, BodyDenied)
  /\ Len(requests) = 1

\* C14: promote_user_story refuses an empty list of identifiers before any
\* request: a call with a key whose userStoryIds parse to no identifier
\* returns a report flagged isError and sends nothing, so every Promotion
\* request carries at least one identifier and no empty one.
C14_NoEmptyPromotion ==
  /\ \A i \in 1..Len(calls) :
       (/\ calls[i].tool = "promote_user_story"
        /\ ~NoKey(calls[i].apiKey)
        /\ parseUserStoryIds(calls[i].args.userStoryIds) = << >>)
       => /\ calls[i].pc = "done"
          /\ calls[i].report.isError
          /\ calls[i].report.errorMessage = NoValidIds
          /\ RequestsOf(i) = {}
  /\ \A r \in 1..Len(requests) :
       requests[r].body.action = "Promotion" =>
         /\ Len(requests[r].body.payload.userStoryIds) > 0
         /\ \A k \in 1..Len(requests[r].body.payload.userStoryIds) :
              Len(requests[r].body.payload.userStoryIds[k]) > 0

C14_Witness ==
  /\ Len(calls) = 1
  /\ calls[1].tool = "promote_user_story"
  /\ calls[1].apiKey = "K1"
  /\ calls[1].args.userStoryIds = <<" ",","," ","a","n","d"," ">>
  /\ calls[1].pc = "done"
  /\ calls[1].report.errorMessage = NoValidIds
  /\ requests = << >>

\* call i got a 2xx response whose body is no JSON text
OpaqueBody(i) ==
  /\ calls[i].pc = "done"
  /\ Has(calls[i], "response")
  /\ calls[i].response.kind = "http"
  /\ calls[i].response.ok
  /\ JSONparse(calls[i].response.text).threw

\* C19: for each of the four tools, a 2xx response whose body is not valid
\* JSON is no failure: the tool returns a report without the error flag, and
\* the status that check_job_status reports is then Unknown.
C19_OpaqueBodyIsNoFailure ==
  \A i \in 1..Len(calls) :
    OpaqueBody(i) =>
      /\ ~calls[i].report.isError
      /\ calls[i].tool = "check_job_status" =>
           /\ calls[i].report.status = <<"U","N","K","N","O","W","N">>
           /\ calls[i].report.statusColor = "GRAY"

C19_Witness ==
  /\ Len(calls) = 1
  /\ calls[1].tool = "check_job_status"
  /\ OpaqueBody(1)
  /\ calls[1].response.text = BodyPlain
  /\ ~calls[1].report.isError
  /\ calls[1].report.status = <<"U","N","K","N","O","W","N">>

-----------------------------------------------------------------------------
(* Claims about the worker and its token, under SpecWorker                 *)

-----------------------------------------------------------------------------
(* Claims about parseChangesToCopadoFormat, under SpecParse                *)

\* the [n, t] pairs of the returned records, in order
NamesAndTypes(cs) == [i \in 1..Len(cs) |-> << cs[i].n, cs[i].t >>]

\* ^[A-Z][A-Za-z0-9_]*$
MatchesIdentifierGrammar(name) ==
  /\ Len(name) >= 1
  /\ IsUpper(name[1])
  /\ \A i \in 2..Len(name) : IsWordChar(name[i])

\* C4: first writer wins.  Whenever the primary patterns accept a name more
\* than once (patterns in listed order, matches in scan order), the result
\* holds exactly one record for the name, and its type is the type of the
\* first accepted match.
C4_FirstWriterWins ==
  parsePc = "parsed" =>
    LET cs == SetCalls(description)
    IN \A i \in 1..Len(cs) :
         LET first == Min({j \in 1..Len(cs) : cs[j].name = cs[i].name})
             recs  == {k \in 1..Len(changes) : changes[k].n = cs[i].name}
         IN /\ Cardinality(recs) = 1
            /\ \A k \in recs : changes[k].t = cs[first].type

\* C5 as claimed: a description of filler words followed by "<Name> class",
\* <Name> matching the identifier grammar and not excluded, gives exactly one
\* record, of type ApexClass and name <Name>.
C5_NameClassAsClaimed ==
  (/\ parsePc = "parsed"
   /\ shape.kind = "NameClass"
   /\ MatchesIdentifierGrammar(shape.name)
   /\ toLowerCase(shape.name) \notin excludeWords)
  => NamesAndTypes(changes) = << << shape.name, "ApexClass" >> >>

\* C5 as amended: the same for a <Name> of at least two characters.
C5_NameClass ==
  (/\ parsePc = "parsed"
   /\ shape.kind = "NameClass"
   /\ MatchesIdentifierGrammar(shape.name)
   /\ toLowerCase(shape.name) \notin excludeWords
   /\ Len(shape.name) >= 2)
  => NamesAndTypes(changes) = << << shape.name, "ApexClass" >> >>

C5_Witness ==
  /\ parsePc = "parsed"
  /\ shape.kind = "NameClass"
  /\ shape.name = <<"A","b">>
  /\ Len(shape.filler) = MaxFiller
  /\ NamesAndTypes(changes) = << << <<"A","b">>, "ApexClass" >> >>

\* the pattern whose pass first accepts a mention of the given form
FormRank(form) ==
  CASE form = "NameType"     -> 1
    [] form = "TypeName"     -> 2
    [] form = "ApexTypeName" -> 2
    [] form = "NameApexType" -> 4

FallbackNames(desc) ==
  LET ms == ExecAll(FallbackPatternId, desc, 1)
  IN {ms[i].g1 : i \in {j \in 1..Len(ms) : IsFallbackName(ms[j].g1)}}

\* C7: the parser never returns an empty list, and a description in which
\* neither the primary patterns nor the fallback scan accept a name gives
\* exactly the placeholder record, with the default action.
C7_PlaceholderWhenNothingFound ==
  parsePc = "parsed" =>
    /\ Len(changes) >= 1
    /\ (SetCalls(description) = << >> /\ FallbackNames(description) = {})
         => changes = << [a |-> defaultActionOf(description), n |-> UnknownComponent,
                          t |-> "ApexClass", m |-> "force-app/main/default"] >>

C7_Witness ==
  /\ parsePc = "parsed"
  /\ description = ExampleNoChanges
  /\ changes = << [a |-> "Add", n |-> UnknownComponent, t |-> "ApexClass",
                   m |-> "force-app/main/default"] >>

\* the action phrases that normalize to Add
AddPhrases == {actionMap[i].k : i \in {j \in 1..Len(actionMap) : actionMap[j].v = "Add"}}

\* C8: "<filler> <Name> apex class", with a <Name> of the identifier grammar
\* that has two characters or more and is not excluded, and an Add phrase in
\* the filler, gives exactly one record
\* {a: Add, n: <Name>, t: ApexClass, m: force-app/main/default}; the match of
\* the words "apex class" by the first pattern adds no record.
C8_NameApexClass ==
  /\ (/\ parsePc = "parsed"
      /\ shape.kind = "NameApexClass"
      /\ MatchesIdentifierGrammar(shape.name)
      /\ Len(shape.name) >= 2
      /\ toLowerCase(shape.name) \notin excludeWords
      /\ \E i \in 1..Len(shape.filler) : shape.filler[i] \in AddPhrases)
     => changes = << [a |-> "Add", n |-> shape.name, t |-> "ApexClass",
                      m |-> "force-app/main/default"] >>
  /\ (parsePc = "parsed" /\ description = ExampleApexClass)
     => changes = << [a |-> "Add", n |-> AccountController, t |-> "ApexClass",
                      m |-> "force-app/main/default"] >>

C8_Witness ==
  /\ parsePc = "parsed"
  /\ shape.kind = "NameApexClass"
  /\ shape.name = AccountController
  /\ shape.filler = << <<"t","h","e">>, modifiedWord >>
  /\ \E i \in 1..Len(ExecAll(1, description, 1)) :
       ExecAll(1, description, 1)[i].g1 = apexWord
  /\ changes = << [a |-> "Add", n |-> AccountController, t |-> "ApexClass",
                   m |-> "force-app/main/default"] >>

\* the action phrase at place i of the lexicon occurs in the lower-cased text
PhraseOccurs(desc, i) == includes(toLowerCase(desc), actionMap[i].k)

\* C16: every record of one parse has the same action: the value of the
\* first key of the action lexicon, in lexicon order, that occurs in the
\* lower-cased description, and Add when none occurs; so the action is
\* Delete only when a Delete phrase occurs and no Add phrase occurs.
C16_DefaultAction ==
  parsePc = "parsed" =>
    \A r \in 1..Len(changes) :
      /\ \A i \in 1..Len(actionMap) :
           (PhraseOccurs(description, i) /\ \A j \in 1..(i - 1) : ~PhraseOccurs(description, j))
             => changes[r].a = actionMap[i].v
      /\ (\A i \in 1..Len(actionMap) : ~PhraseOccurs(description, i)) => changes[r].a = "Add"
      /\ changes[r].a = "Delete" <=>
           /\ \E i \in 1..Len(actionMap) :
                actionMap[i].v = "Delete" /\ PhraseOccurs(description, i)
           /\ \A i \in 1..Len(actionMap) :
                actionMap[i].v = "Add" => ~PhraseOccurs(description, i)

\* "deleted" comes first in the text and "modified" first in the lexicon
C16_Witness ==
  /\ parsePc = "parsed"
  /\ description = JoinWords(<< deletedWord, Foo, modifiedWord >>)
  /\ Len(changes) >= 1
  /\ \A r \in 1..Len(changes) : changes[r].a = "Add"

\* the names the primary patterns accept
PrimaryNames(desc) == {SetCalls(desc)[k].name : k \in 1..Len(SetCalls(desc))}

\* C17: the fallback scan runs only when the primary patterns accept no
\* name: if they accept at least one, the result holds exactly the names
\* they accepted, and no other capitalized token that the fallback scan
\* would accept.
C17_FallbackOnlyWhenNothingFound ==
  (parsePc = "parsed" /\ SetCalls(description) # << >>) =>
    /\ {changes[r].n : r \in 1..Len(changes)} = PrimaryNames(description)
    /\ \A name \in FallbackNames(description) \ PrimaryNames(description) :
         \A r \in 1..Len(changes) : changes[r].n # name

C17_Witness ==
  /\ parsePc = "parsed"
  /\ SetCalls(description) # << >>
  /\ FallbackNames(description) \ PrimaryNames(description) # {}
  /\ {changes[r].n : r \in 1..Len(changes)} = PrimaryNames(description)

-----------------------------------------------------------------------------
(* Claims about the status of check_job_status, under SpecStatus           *)

\* the bucket of a lower-cased status: its colour and its next-step text
BucketOfLower(lower) ==
  CASE lower \in { <<"c","o","m","p","l","e","t","e","d">>, <<"s","u","c","c","e","s","s">> } ->
         << "GREEN", "Deployment completed successfully! Check your destination org." >>
    [] lower \in { <<"f","a","i","l","e","d">>, <<"e","r","r","o","r">> } ->
         << "RED", "Check the error details and retry if needed." >>
    [] lower \in { <<"i","n"," ","p","r","o","g","r","e","s","s">>, <<"r","u","n","n","i","n","g">> } ->
         << "BLUE", "Deployment is still running. Check again in a few minutes." >>
    [] lower \in { <<"n","o","t"," ","s","t","a","r","t","e","d">>, <<"q","u","e","u","e","d">> } ->
         << "YELLOW", "Job is queued and will start shortly." >>
    [] OTHER ->
         << "GRAY", "Unknown status. Check Copado org for details." >>

\* C11: check_job_status puts every status string in exactly one of five
\* buckets, by the lower-cased string alone: completed/success (GREEN),
\* failed/error (RED), in progress/running (BLUE), not started/queued
\* (YELLOW), anything else (GRAY); each bucket has its own next-step text.
C11_StatusBuckets ==
  (statusPc = "classified" /\ statusShape.kind = "status") =>
    /\ statusFound.status = statusShape.status
    /\ << statusFound.statusColor, statusFound.nextSteps >>
         = BucketOfLower(toLowerCase(statusShape.status))

C11_Witness ==
  /\ statusPc = "classified"
  /\ statusShape.kind = "status"
  /\ statusShape.status = <<"I","n"," ","P","R","O","G","R","E","S","S">>
  /\ statusFound.statusColor = "BLUE"
  /\ statusFound.nextSteps = "Deployment is still running. Check again in a few minutes."

\* C20: the job object is the nested jobExecution when the response has
\* one, the response itself otherwise; the status is the job object's
\* copado__Status__c when that is not empty, else its status when that is
\* not empty, else "Unknown"; a status of the response itself is not read
\* when there is a nested jobExecution.
C20_StatusExtraction ==
  (statusPc = "classified" /\ statusShape.kind \in { "top", "nested" }) =>
    statusFound.status =
      IF statusShape.primary \notin { Undefined, << >> } THEN statusShape.primary
      ELSE IF statusShape.secondary \notin { Undefined, << >> } THEN statusShape.secondary
      ELSE <<"U","n","k","n","o","w","n">>

C20_Witness ==
  /\ statusPc = "classified"
  /\ statusShape.kind = "nested"
  /\ statusShape.primary = Undefined
  /\ statusShape.secondary = << >>
  /\ statusShape.top = <<"C","o","m","p","l","e","t","e","d">>
  /\ Has(statusResult, "jobExecution")
  /\ statusFound.status = <<"U","n","k","n","o","w","n">>
  /\ statusFound.statusColor = "GRAY"

-----------------------------------------------------------------------------
(* Claims about parseUserStoryIds, under SpecIds                           *)

\* C9: parsing is idempotent through joining with commas:
\* parseUserStoryIds(parseUserStoryIds(x).join(",")) = parseUserStoryIds(x).
C9_IdempotentThroughJoin ==
  idsPc = "rejoined" => rejoinedIds = cleanedIds

C9_Witness ==
  /\ idsPc = "rejoined"
  /\ userStoryIds = IdExampleCommaAnd
  /\ cleanedIds = << IdA, IdB, IdC >>
  /\ rejoinedIds = << IdA, IdB, IdC >>

\* C10: every returned identifier is non-empty and trimmed; a written list
\* comes back as its identifiers, in the order written, duplicates kept; and
\* the two examples give [a1u1, a1u2, a1u3] and [a1u1, a1u2].
C10_OrderedTrimmedNoDedup ==
  idsPc \in {"parsed", "rejoined"} =>
    /\ \A i \in 1..Len(cleanedIds) :
         /\ Len(cleanedIds[i]) > 0
         /\ ~IsSpace(cleanedIds[i][1])
         /\ ~IsSpace(cleanedIds[i][Len(cleanedIds[i])])
    /\ idsShape.kind = "list" => cleanedIds = idsShape.ids
    /\ userStoryIds = IdExampleCommaAnd => cleanedIds = << IdA, IdB, IdC >>
    /\ userStoryIds = IdExampleQuotedArray => cleanedIds = << IdA, IdB >>

C10_Witness ==
  /\ idsPc = "parsed"
  /\ idsShape.kind = "list"
  /\ idsShape.ids = << IdB, IdA, IdB >>
  /\ cleanedIds = << IdB, IdA, IdB >>

\* the word "and", in any case, stands alone at place p of the text
StandaloneAndAt(s, p) ==
  /\ OccursAtIgnoreCase(s, p, <<"a","n","d">>)
  /\ WordBoundary(s, p)
  /\ WordBoundary(s, p + 3)

\* C18: every standalone occurrence of the word "and", in any case, is
\* replaced by a comma before the split, so no returned identifier contains
\* a standalone "and", wherever the word stood in the input: at its start,
\* at its end, or next to a comma.
C18_NoStandaloneAnd ==
  idsPc \in {"parsed", "rejoined"} =>
    \A i \in 1..Len(cleanedIds) :
      \A p \in 1..Len(cleanedIds[i]) : ~StandaloneAndAt(cleanedIds[i], p)

====
